---------------------------- MODULE Spec2Model ----------------------------
(***************************************************************************)
(* State-machine model of the MiFlora BLE driver (src/miflora.py): the     *)
(* event dispatcher MiFlora._irq, the request methods, the library         *)
(* callbacks and the payload decoders, together with two models of the BLE *)
(* host stack: an unconstrained one (any event at any time) and one that   *)
(* answers each accepted request with the events of its contract.          *)
(***************************************************************************)
EXTENDS Integers, Sequences, FiniteSets, TLC

VARIABLES
    self,      \* the MiFlora instance: one field per attribute of the object
    cfg,       \* module switches _DISCOVER_SERVICES / _DISCOVER_CHARACTERISTICS
    op,        \* the method run by the last step ("_irq" or an API method)
    calls,     \* host-stack calls made during the last step, in order
    cbs,       \* callbacks invoked during the last step, in order
    exc,       \* exception that escaped the last step ("None" if it returned)
    ret,       \* value returned by the last API call
    hostq,     \* contract host: events in flight towards the dispatcher
    hostLog,   \* contract host: GATT requests accepted on the connection
    started,   \* contract host: the application has issued its one request
    hostFault, \* contract host: a request was rejected / a payload malformed
    wait,      \* the application's call in progress and the statement it has reached
    inp        \* manual mode: the input of the last step and the handles tracked before it

vars == <<self, cfg, op, calls, cbs, exc, ret, hostq, hostLog, started, hostFault, wait, inp>>

---------------------------------------------------------------------------
(* Program constants                                                       *)

\* Python's None in an integer-valued attribute (outside every value range).
None == -100000
\* Python's None in a string-valued attribute / an empty callback slot.
NoneS == "None"
\* Python's None in a bytes-valued attribute (_value) or in version.
NoneB == <<None>>
\* Python's None in light (see U32).
NoneL == [hi |-> None, lo |-> None]

AUTO_MODE == 1
_T_WAIT == 100

_ADV_IND         == 0
_ADV_DIRECT_IND  == 1
_ADV_SCAN_IND    == 2
_ADV_NONCONN_IND == 3
_ADV_SCAN_RSP    == 4

_ADDR_TYPE_PUBLIC == 0
_ADDR_TYPE_RANDOM == 1

_HANDLE_READ_VERSION_BATTERY == 56
_HANDLE_WRITE_MODE_CHANGE    == 51
_DATA_MODE_CHANGE            == <<160, 31>>
_HANDLE_READ_SENSOR_DATA     == 53

_S_INIT                == 0
_S_SCAN_DONE           == 1
_S_SERVICE_DONE        == 2
_S_CHARACTERISTIC_DONE == 3
_S_READ_FIRMWARE_DONE  == 4
_S_MODE_CHANGE_DONE    == 5
_S_READ_SENSOR_DONE    == 6

_GENERIC_ACCESS_SERVICE_UUID == "1800"
_MIFLORA_DATA_SERVICE_UUID   == "1204"

---------------------------------------------------------------------------
(* Python helpers                                                          *)

\* data[i:j] of Python (0-based, end exclusive, clamped to the length).
Slice(data, i, j) ==
    LET hi == IF j < Len(data) THEN j ELSE Len(data)
    IN  IF i >= hi THEN <<>> ELSE [k \in 1..(hi - i) |-> data[i + k]]

\* Truth value of an integer-or-None attribute: None and 0 are false.
Truthy(x) == x # None /\ x # 0

\* struct.unpack("<H"-sized little-endian unsigned) of a byte string.
RECURSIVE LeUnsigned(_)
LeUnsigned(b) ==
    IF b = <<>> THEN 0 ELSE b[1] + 256 * LeUnsigned(Tail(b))

\* An unsigned 32-bit value, kept as its two 16-bit halves (value =
\* hi * 65536 + lo) so that every product stays below 2^31.
U32(b) == [hi |-> LeUnsigned(Slice(b, 2, 4)), lo |-> LeUnsigned(Slice(b, 0, 2))]

\* Two's complement reading of an unsigned value of the given bit width.
Signed(u, bits) == IF u >= 2 ^ (bits - 1) THEN u - 2 ^ bits ELSE u

\* Result of str(b, 'UTF-8') when the bytes are not valid UTF-8.
UnicodeError == <<-1>>

\* Number of continuation bytes a UTF-8 lead byte announces (-1: not a lead).
Utf8Need(c) ==
    IF c < 128 THEN 0
    ELSE IF c < 192 THEN -1
    ELSE IF c < 224 THEN 1
    ELSE IF c < 240 THEN 2
    ELSE IF c < 248 THEN 3
    ELSE -1

Utf8IsCont(c) == c >= 128 /\ c < 192

\* Code point of a lead byte followed by its continuation bytes.
RECURSIVE Utf8Fold(_, _)
Utf8Fold(acc, conts) ==
    IF conts = <<>> THEN acc
    ELSE Utf8Fold(acc * 64 + (conts[1] % 64), Tail(conts))

Utf8Lead(c, need) ==
    IF need = 0 THEN c
    ELSE IF need = 1 THEN c % 32
    ELSE IF need = 2 THEN c % 16
    ELSE c % 8

\* The code points of b from position i on, appended to acc, or UnicodeError.
RECURSIVE Utf8From(_, _, _)
Utf8From(b, i, acc) ==
    IF i > Len(b) THEN acc
    ELSE
        LET need == Utf8Need(b[i])
        IN  IF need < 0 \/ Len(b) < i + need THEN UnicodeError
            ELSE IF \E k \in 1..need : ~Utf8IsCont(b[i + k]) THEN UnicodeError
            ELSE Utf8From(b, i + need + 1,
                          Append(acc, Utf8Fold(Utf8Lead(b[i], need),
                                               Slice(b, i, i + need))))

\* str(b, 'UTF-8'): the code points of b, or UnicodeError.
Utf8Decode(b) == Utf8From(b, 1, <<>>)

---------------------------------------------------------------------------
(* The MiFlora object                                                      *)

\* self.services / self.characteristics: attributes that do not exist until
\* discover_services() / discover_characteristics() creates them.
UndefinedDict == [defined |-> FALSE, items |-> {}]
EmptyDict     == [defined |-> TRUE, items |-> {}]

\* d[key] = val on a dict modelled as a set of <<key, val>> pairs.
DictPut(d, key, val) ==
    [d EXCEPT !.items = {kv \in d.items : kv[1] # key} \cup {<<key, val>>}]

\* The attributes assigned by _reset(); services, characteristics and
\* search_service are not among them.
_reset(s) ==
    [s EXCEPT
        !.state = _S_INIT,
        !.search_addr = None,
        !.addr_found = FALSE,
        !.name = NoneS,
        !.rssi = 0,
        !.version = NoneB,
        !.battery = None,
        !.temp = None,
        !.light = NoneL,
        !.moist = None,
        !.cond = None,
        !._addr_type = None,
        !._addr = None,
        !._value = NoneB,
        !._scan_callback = NoneS,
        !._conn_callback = NoneS,
        !._serv_done_callback = NoneS,
        !._char_done_callback = NoneS,
        !._read_callback = NoneS,
        !._write_callback = NoneS,
        !._notify_callback = NoneS,
        !._conn_handle = None,
        !._start_handle = None,
        !._end_handle = None,
        !._value_handle = None]

\* A record with every attribute, before __init__ has given them values.
Blank ==
    [state |-> _S_INIT, search_addr |-> None, addr_found |-> FALSE,
     name |-> NoneS, rssi |-> 0, version |-> NoneB, battery |-> None,
     temp |-> None, light |-> NoneL, moist |-> None, cond |-> None,
     _addr_type |-> None, _addr |-> None, _value |-> NoneB,
     _scan_callback |-> NoneS, _conn_callback |-> NoneS,
     _serv_done_callback |-> NoneS, _char_done_callback |-> NoneS,
     _read_callback |-> NoneS, _write_callback |-> NoneS,
     _notify_callback |-> NoneS, _conn_handle |-> None,
     _start_handle |-> None, _end_handle |-> None, _value_handle |-> None,
     services |-> UndefinedDict, characteristics |-> UndefinedDict,
     search_service |-> NoneS, has_search_service |-> FALSE]

\* MiFlora(ble): the object after construction.
__init__ == _reset(Blank)

is_connected(s) == s._conn_handle # None

---------------------------------------------------------------------------
(* Execution of one handler: the object, the host calls made so far, the   *)
(* callbacks invoked so far, the pending exception and the return value.   *)

Ctx(s) == [s |-> s, calls |-> <<>>, cbs |-> <<>>, exc |-> "None", ret |-> "None"]

Raise(c, e) == [c EXCEPT !.exc = e]
Return(c, v) == [c EXCEPT !.ret = v]

Call(fn, a, b, d, ok) == [fn |-> fn, a |-> a, b |-> b, d |-> d, ok |-> ok]

\* self._ble.<fn>(...): the host stack accepts the request, or raises OSError.
HostCall(c, fn, a, b, d, ok) ==
    LET c1 == [c EXCEPT !.calls = Append(@, Call(fn, a, b, d, ok))]
    IN  IF ok THEN c1 ELSE Raise(c1, "OSError")

\* The host call without the try/except around it.
TryHostCall_unguarded(c, fn, a, b, d, ok) == HostCall(c, fn, a, b, d, ok)

\* try: self._ble.<fn>(...)  except OSError: pass
TryHostCall(c, fn, a, b, d, ok) ==
    LET c1 == HostCall(c, fn, a, b, d, ok)
    IN  IF c1.exc = "OSError" THEN [c1 EXCEPT !.exc = "None"] ELSE c1

\* GattCall without the integer conversion of the connection handle.
GattCall_untyped(c, fn, a, b, d, ok) == TryHostCall(c, fn, a, b, d, ok)

\* A GATT call whose connection handle argument is None never reaches the
\* host stack: the integer conversion of the argument raises TypeError.
GattCall(c, fn, a, b, d, ok) ==
    IF a = None THEN Raise(c, "TypeError") ELSE TryHostCall(c, fn, a, b, d, ok)

---------------------------------------------------------------------------
(* Callback methods                                                        *)

scan_done(c) == [c EXCEPT !.s.state = _S_SCAN_DONE]

\* read_firmware_done with the version slice off by one (data[1:6]).
read_firmware_done_shifted(c, data) ==
    IF Len(data) < 1 THEN Raise(c, "IndexError")
    ELSE
        LET c1  == [c EXCEPT !.s.battery = data[1]]
            str == Utf8Decode(Slice(data, 1, 6))
        IN  IF str = UnicodeError THEN Raise(c1, "UnicodeError")
            ELSE [c1 EXCEPT !.s.version = str,
                            !.s.state = _S_READ_FIRMWARE_DONE]

read_firmware_done(c, data) ==
    IF Len(data) < 1 THEN Raise(c, "IndexError")
    ELSE
        LET c1  == [c EXCEPT !.s.battery = data[1]]
            str == Utf8Decode(Slice(data, 2, 7))
        IN  IF str = UnicodeError THEN Raise(c1, "UnicodeError")
            ELSE [c1 EXCEPT !.s.version = str,
                            !.s.state = _S_READ_FIRMWARE_DONE]

\* mode_change_done forgetting to record the new state.
mode_change_done_stateless(c) == c

mode_change_done(c) == [c EXCEPT !.s.state = _S_MODE_CHANGE_DONE]

\* struct.unpack(fmt, b) accepts only a buffer of the format's size.
UnpackFits(b, size) == Len(b) = size

\* read_sensor_done storing each field as soon as it is unpacked.
read_sensor_done_partial(c, data) ==
    LET temp  == Slice(data, 0, 2)
        light == Slice(data, 3, 7)
        moist == Slice(data, 7, 8)
        cond  == Slice(data, 8, 10)
    IN  IF ~UnpackFits(temp, 2) THEN Raise(c, "ValueError")
        ELSE
            LET c1 == [c EXCEPT !.s.temp = Signed(LeUnsigned(temp), 16)]
            IN  IF ~UnpackFits(light, 4) \/ ~UnpackFits(moist, 1) \/ ~UnpackFits(cond, 2)
                    THEN Raise(c1, "ValueError")
                ELSE [c1 EXCEPT
                        !.s.light = U32(light),
                        !.s.moist = LeUnsigned(moist),
                        !.s.cond  = Signed(LeUnsigned(cond), 16),
                        !.s.state = _S_READ_SENSOR_DONE]

\* read_sensor_done unpacking the temperature as unsigned ("<H").
read_sensor_done_unsigned(c, data) ==
    LET temp  == Slice(data, 0, 2)
        light == Slice(data, 3, 7)
        moist == Slice(data, 7, 8)
        cond  == Slice(data, 8, 10)
    IN  IF ~UnpackFits(temp, 2) \/ ~UnpackFits(light, 4)
           \/ ~UnpackFits(moist, 1) \/ ~UnpackFits(cond, 2)
            THEN Raise(c, "ValueError")
        ELSE [c EXCEPT
                !.s.temp  = LeUnsigned(temp),
                !.s.light = U32(light),
                !.s.moist = LeUnsigned(moist),
                !.s.cond  = Signed(LeUnsigned(cond), 16),
                !.s.state = _S_READ_SENSOR_DONE]

\* temp is kept in tenths of a degree: the attribute holds temp[0]/10.0.
read_sensor_done(c, data) ==
    LET temp  == Slice(data, 0, 2)
        light == Slice(data, 3, 7)
        moist == Slice(data, 7, 8)
        cond  == Slice(data, 8, 10)
    IN  IF ~UnpackFits(temp, 2) \/ ~UnpackFits(light, 4)
           \/ ~UnpackFits(moist, 1) \/ ~UnpackFits(cond, 2)
            THEN Raise(c, "ValueError")
        ELSE [c EXCEPT
                !.s.temp  = Signed(LeUnsigned(temp), 16),
                !.s.light = U32(light),
                !.s.moist = LeUnsigned(moist),
                !.s.cond  = Signed(LeUnsigned(cond), 16),
                !.s.state = _S_READ_SENSOR_DONE]

---------------------------------------------------------------------------
(* Action trigger methods                                                  *)

scan(c, callback, ok) ==
    LET c1 == [c EXCEPT !.s._addr_type = None,
                        !.s._addr = None,
                        !.s._scan_callback = callback]
    IN  TryHostCall(c1, "gap_scan", 2000, 30000, <<>>, ok)

gap_connect(c, addr_type, addr, callback, ok) ==
    LET c1 == IF addr_type # None /\ addr # None
                  THEN [c EXCEPT !.s._addr_type = addr_type, !.s._addr = addr]
                  ELSE c
        c2 == [c1 EXCEPT !.s._conn_callback = callback]
    IN  IF c2.s._addr_type = None \/ c2.s._addr = None
            \* self.debug(...): MiFlora has no attribute 'debug'
            THEN Raise(c2, "AttributeError")
        ELSE
            LET c3 == HostCall(c2, "gap_connect", c2.s._addr_type, c2.s._addr, <<>>, ok)
            IN  IF c3.exc = "OSError"
                    THEN Return([c3 EXCEPT !.exc = "None"], "False")
                ELSE Return(c3, "True")

disconnect(c, ok) ==
    IF ~Truthy(c.s._conn_handle) THEN c
    ELSE
        LET c1 == TryHostCall(c, "gap_disconnect", c.s._conn_handle, None, <<>>, ok)
        IN  [c1 EXCEPT !.s = _reset(c1.s)]

discover_services(c, callback, ok) ==
    LET c1 == [c EXCEPT !.s.services = EmptyDict]
    IN  IF ~is_connected(c1.s) THEN c1
        ELSE
            LET c2 == [c1 EXCEPT !.s._serv_done_callback = callback]
            IN  GattCall(c2, "gattc_discover_services", c2.s._conn_handle, None, <<>>, ok)

discover_characteristics(c, start_handle, end_handle, callback, ok) ==
    LET c1 == [c EXCEPT !.s.characteristics = EmptyDict]
    IN  IF ~is_connected(c1.s) THEN c1
        ELSE
            LET c2 == [c1 EXCEPT !.s._char_done_callback = callback]
            IN  GattCall(c2, "gattc_discover_characteristics", c2.s._conn_handle,
                         start_handle, <<end_handle>>, ok)

read(c, callback, ok) ==
    IF ~is_connected(c.s) THEN c
    ELSE
        LET c1 == [c EXCEPT !.s._read_callback = callback]
        IN  IF c1.s._value_handle = None THEN Raise(c1, "TypeError")
            ELSE GattCall(c1, "gattc_read", c1.s._conn_handle, c1.s._value_handle, <<>>, ok)

read_firmware(c, callback, ok) ==
    IF ~is_connected(c.s) THEN c
    ELSE
        LET c1 == [c EXCEPT !.s._read_callback = callback,
                            !.s._value_handle = _HANDLE_READ_VERSION_BATTERY]
        IN  GattCall(c1, "gattc_read", c1.s._conn_handle, c1.s._value_handle, <<>>, ok)

mode_change(c, callback, ok) ==
    LET c1 == [c EXCEPT !.s._write_callback = callback,
                        !.s._value_handle = _HANDLE_WRITE_MODE_CHANGE]
    IN  GattCall(c1, "gattc_write", c1.s._conn_handle, c1.s._value_handle,
                 _DATA_MODE_CHANGE \o <<1>>, ok)

\* read_sensor storing its arguments before it looks at the connection.
read_sensor_eager(c, callback, ok) ==
    LET c1 == [c EXCEPT !.s._read_callback = callback,
                        !.s._value_handle = _HANDLE_READ_SENSOR_DATA]
    IN  IF ~is_connected(c1.s) THEN c1
        ELSE GattCall(c1, "gattc_read", c1.s._conn_handle, c1.s._value_handle, <<>>, ok)

read_sensor(c, callback, ok) ==
    IF ~is_connected(c.s) THEN c
    ELSE
        LET c1 == [c EXCEPT !.s._read_callback = callback,
                            !.s._value_handle = _HANDLE_READ_SENSOR_DATA]
        IN  GattCall(c1, "gattc_read", c1.s._conn_handle, c1.s._value_handle, <<>>, ok)

on_notify(c, callback) == [c EXCEPT !.s._notify_callback = callback]

_update_value(c, data) == [c EXCEPT !.s._value = data]

\* Calling the function stored in a slot.  The "app_..." callbacks belong to
\* the application: they leave the driver alone, except "app_again", which
\* requests the next read (read_sensor with callback "app_b") from inside
\* the callback.
Invoke(c, slot, cb, data) ==
    LET c1 == [c EXCEPT !.cbs = Append(@, [slot |-> slot, fn |-> cb])]
    IN  CASE cb = "scan_done"          -> scan_done(c1)
          [] cb = "read_firmware_done" -> read_firmware_done(c1, data)
          [] cb = "mode_change_done"   -> mode_change_done(c1)
          [] cb = "read_sensor_done"   -> read_sensor_done(c1, data)
          [] cb = "app_again"          -> read_sensor(c1, "app_b", TRUE)
          [] OTHER                     -> c1

---------------------------------------------------------------------------
(* Events of the host stack and the dispatcher                             *)

\* (event, data) as passed to _irq; fields an event kind does not carry
\* keep these defaults.
Event(kind) ==
    [kind |-> kind, conn |-> None, at |-> None, addr |-> None, adv |-> None,
     rssi |-> 0, name |-> "?", vh |-> None, data |-> <<>>,
     sh |-> None, eh |-> None, uuid |-> NoneS]

\* irq_scan_result accepting every advertising type.
irq_scan_result_anyadv(c, e, ok) ==
    IF e.addr = c.s.search_addr
        THEN
            LET c1 == [c EXCEPT !.s._addr_type = e.at,
                                !.s.rssi = e.rssi,
                                !.s.addr_found = TRUE,
                                !.s._addr = e.addr,
                                !.s.name = IF e.name # "?" THEN e.name ELSE @]
            IN  HostCall(c1, "gap_scan", None, None, <<>>, ok)
    ELSE c

irq_scan_result(c, e, ok) ==
    IF e.adv \in {_ADV_IND, _ADV_DIRECT_IND, _ADV_SCAN_RSP} /\ e.addr = c.s.search_addr
        THEN
            LET c1 == [c EXCEPT !.s._addr_type = e.at,
                                !.s.rssi = e.rssi,
                                !.s.addr_found = TRUE,
                                !.s._addr = e.addr,
                                !.s.name = IF e.name # "?" THEN e.name ELSE @]
            IN  HostCall(c1, "gap_scan", None, None, <<>>, ok)
    ELSE c

irq_scan_done(c, e, ok) ==
    IF c.s._scan_callback # NoneS
        THEN
            IF c.s._addr # None
                THEN
                    LET c1 == Invoke(c, "scan", c.s._scan_callback, <<>>)
                    IN  IF c1.exc # "None" THEN c1
                        ELSE
                            LET c2 == [c1 EXCEPT !.s._scan_callback = NoneS]
                            IN  IF AUTO_MODE # 0
                                    THEN gap_connect(c2, c2.s._addr_type, c2.s._addr, NoneS, ok)
                                ELSE c2
            ELSE Invoke(c, "scan", c.s._scan_callback, <<>>)
    ELSE c

\* irq_peripheral_connect without the comparison of the peer address.
irq_peripheral_connect_anypeer(c, e, ok, k) ==
    LET c1 == [c EXCEPT !.s._conn_handle = e.conn]
        c2 == IF c1.s._conn_callback # NoneS
                  THEN Invoke(c1, "conn", c1.s._conn_callback, <<>>)
              ELSE c1
        c3 == IF c1.s._conn_callback # NoneS /\ c2.exc = "None"
                  THEN [c2 EXCEPT !.s._conn_callback = NoneS]
              ELSE c2
    IN  IF c3.exc # "None" THEN c3
        ELSE IF AUTO_MODE # 0
            THEN
                IF k._DISCOVER_SERVICES
                    THEN discover_services(c3, NoneS, ok)
                ELSE read_firmware(c3, "read_firmware_done", ok)
        ELSE c3

irq_peripheral_connect(c, e, ok, k) ==
    IF e.at = c.s._addr_type /\ e.addr = c.s._addr
        THEN
            LET c1 == [c EXCEPT !.s._conn_handle = e.conn]
                c2 == IF c1.s._conn_callback # NoneS
                          THEN Invoke(c1, "conn", c1.s._conn_callback, <<>>)
                      ELSE c1
                c3 == IF c1.s._conn_callback # NoneS /\ c2.exc = "None"
                          THEN [c2 EXCEPT !.s._conn_callback = NoneS]
                      ELSE c2
            IN  IF c3.exc # "None" THEN c3
                ELSE IF AUTO_MODE # 0
                    THEN
                        IF k._DISCOVER_SERVICES
                            THEN discover_services(c3, NoneS, ok)
                        ELSE read_firmware(c3, "read_firmware_done", ok)
                ELSE c3
    ELSE c

\* irq_peripheral_disconnect resetting everything but the session state.
irq_peripheral_disconnect_keepstate(c, e) ==
    IF e.conn = c.s._conn_handle
        THEN [c EXCEPT !.s = [_reset(c.s) EXCEPT !.state = c.s.state]]
    ELSE c

\* irq_peripheral_disconnect dropping the connection handle only.
irq_peripheral_disconnect_partial(c, e) ==
    IF e.conn = c.s._conn_handle THEN [c EXCEPT !.s._conn_handle = None] ELSE c

irq_peripheral_disconnect(c, e) ==
    IF e.conn = c.s._conn_handle THEN [c EXCEPT !.s = _reset(c.s)] ELSE c

irq_service_result(c, e) ==
    IF e.conn = c.s._conn_handle
        THEN
            IF ~c.s.services.defined THEN Raise(c, "AttributeError")
            ELSE
                LET c1 == [c EXCEPT !.s.services = DictPut(@, e.uuid, <<e.sh, e.eh>>)]
                IN  IF ~c1.s.has_search_service THEN Raise(c1, "AttributeError")
                    ELSE IF e.uuid = c1.s.search_service
                        THEN [c1 EXCEPT !.s._start_handle = e.sh,
                                        !.s._end_handle = e.eh]
                    ELSE c1
    ELSE c

irq_service_done(c, e, ok, k) ==
    LET c1 == [c EXCEPT !.s.state = _S_SERVICE_DONE]
        c2 == IF c1.s._serv_done_callback # NoneS
                  THEN Invoke(c1, "serv", c1.s._serv_done_callback, <<>>)
              ELSE c1
        c3 == IF c1.s._serv_done_callback # NoneS /\ c2.exc = "None"
                  THEN [c2 EXCEPT !.s._serv_done_callback = NoneS]
              ELSE c2
    IN  IF c3.exc # "None" THEN c3
        ELSE IF AUTO_MODE # 0
            THEN
                IF k._DISCOVER_CHARACTERISTICS
                    THEN
                        IF Truthy(c3.s._start_handle) /\ Truthy(c3.s._end_handle)
                            THEN discover_characteristics(c3, c3.s._start_handle,
                                                          c3.s._end_handle, NoneS, ok)
                        ELSE c3
                ELSE read_firmware(c3, "read_firmware_done", ok)
        ELSE c3

irq_characteristic_result(c, e) ==
    IF e.conn = c.s._conn_handle
        THEN
            IF ~c.s.characteristics.defined THEN Raise(c, "AttributeError")
            ELSE [c EXCEPT !.s.characteristics = DictPut(@, e.uuid, <<e.sh, e.vh>>)]
    ELSE c

irq_characteristic_done(c, e, ok) ==
    LET c1 == [c EXCEPT !.s.state = _S_CHARACTERISTIC_DONE]
        c2 == IF c1.s._char_done_callback # NoneS
                  THEN Invoke(c1, "char", c1.s._char_done_callback, <<>>)
              ELSE c1
        c3 == IF c1.s._char_done_callback # NoneS /\ c2.exc = "None"
                  THEN [c2 EXCEPT !.s._char_done_callback = NoneS]
              ELSE c2
    IN  IF c3.exc # "None" THEN c3
        ELSE IF AUTO_MODE # 0 THEN read_firmware(c3, "read_firmware_done", ok)
        ELSE c3

\* irq_read_result without the comparison of the attribute handle.
irq_read_result_anyhandle(c, e) ==
    IF e.conn = c.s._conn_handle
        THEN
            LET c1 == _update_value(c, e.data)
            IN  IF c1.s._read_callback # NoneS
                    THEN
                        LET c2 == Invoke(c1, "read", c1.s._read_callback, c1.s._value)
                        IN  IF c2.exc # "None" THEN c2
                            ELSE [c2 EXCEPT !.s._read_callback = NoneS]
                ELSE c1
    ELSE c

irq_read_result(c, e) ==
    IF e.conn = c.s._conn_handle /\ e.vh = c.s._value_handle
        THEN
            LET c1 == _update_value(c, e.data)
            IN  IF c1.s._read_callback # NoneS
                    THEN
                        LET c2 == Invoke(c1, "read", c1.s._read_callback, c1.s._value)
                        IN  IF c2.exc # "None" THEN c2
                            ELSE [c2 EXCEPT !.s._read_callback = NoneS]
                ELSE c1
    ELSE c

\* irq_read_done without the gate on the session state.
irq_read_done_ungated(c, e, ok) ==
    IF AUTO_MODE # 0
        THEN mode_change(c, "mode_change_done", ok)
    ELSE c

irq_read_done(c, e, ok) ==
    IF AUTO_MODE # 0 /\ c.s.state = _S_READ_FIRMWARE_DONE
        THEN mode_change(c, "mode_change_done", ok)
    ELSE c

\* irq_write_done without the gate on the session state.
irq_write_done_ungated(c, e, ok) ==
    IF e.conn = c.s._conn_handle /\ e.vh = c.s._value_handle
        THEN
            LET c1 == IF c.s._write_callback # NoneS
                          THEN Invoke(c, "write", c.s._write_callback, <<>>)
                      ELSE c
                c2 == IF c.s._write_callback # NoneS /\ c1.exc = "None"
                          THEN [c1 EXCEPT !.s._write_callback = NoneS]
                      ELSE c1
            IN  IF c2.exc # "None" THEN c2
                ELSE IF AUTO_MODE # 0
                    THEN read_sensor(c2, "read_sensor_done", ok)
                ELSE c2
    ELSE c

irq_write_done(c, e, ok) ==
    IF e.conn = c.s._conn_handle /\ e.vh = c.s._value_handle
        THEN
            LET c1 == IF c.s._write_callback # NoneS
                          THEN Invoke(c, "write", c.s._write_callback, <<>>)
                      ELSE c
                c2 == IF c.s._write_callback # NoneS /\ c1.exc = "None"
                          THEN [c1 EXCEPT !.s._write_callback = NoneS]
                      ELSE c1
            IN  IF c2.exc # "None" THEN c2
                ELSE IF AUTO_MODE # 0 /\ c2.s.state = _S_MODE_CHANGE_DONE
                    THEN read_sensor(c2, "read_sensor_done", ok)
                ELSE c2
    ELSE c

\* irq_notify treating the notification callback as a one-shot slot.
irq_notify_oneshot(c, e) ==
    IF e.conn = c.s._conn_handle /\ e.vh = c.s._value_handle
        THEN
            LET c1 == _update_value(c, e.data)
            IN  IF c1.s._notify_callback # NoneS
                    THEN [Invoke(c1, "notify", c1.s._notify_callback, c1.s._value)
                             EXCEPT !.s._notify_callback = NoneS]
                ELSE c1
    ELSE c

irq_notify(c, e) ==
    IF e.conn = c.s._conn_handle /\ e.vh = c.s._value_handle
        THEN
            LET c1 == _update_value(c, e.data)
            IN  IF c1.s._notify_callback # NoneS
                    THEN Invoke(c1, "notify", c1.s._notify_callback, c1.s._value)
                ELSE c1
    ELSE c

\* MiFlora._irq(event, data): s is the object, k the module switches, ok
\* the host stack's answer to the request the handler may submit.
_irq(s, k, e, ok) ==
    LET c == Ctx(s)
    IN  CASE e.kind = "ScanResult"           -> irq_scan_result(c, e, ok)
          [] e.kind = "ScanDone"             -> irq_scan_done(c, e, ok)
          [] e.kind = "PeripheralConnect"    -> irq_peripheral_connect(c, e, ok, k)
          [] e.kind = "PeripheralDisconnect" -> irq_peripheral_disconnect(c, e)
          [] e.kind = "ServiceResult"        -> irq_service_result(c, e)
          [] e.kind = "ServiceDone"          -> irq_service_done(c, e, ok, k)
          [] e.kind = "CharacteristicResult" -> irq_characteristic_result(c, e)
          [] e.kind = "CharacteristicDone"   -> irq_characteristic_done(c, e, ok)
          [] e.kind = "ReadResult"           -> irq_read_result(c, e)
          [] e.kind = "ReadDone"             -> irq_read_done(c, e, ok)
          [] e.kind = "WriteDone"            -> irq_write_done(c, e, ok)
          [] e.kind = "Notify"               -> irq_notify(c, e)
          [] OTHER                           -> c

---------------------------------------------------------------------------
(* Input domains                                                           *)

\* Peer addresses: Sensor is the device of miflora_sensors (a public
\* address, advertising with or without its name), Other another device.
Sensor == 1
Other == 2
Addrs == {Sensor, Other}
AddrTypes == {_ADDR_TYPE_PUBLIC, _ADDR_TYPE_RANDOM}
AddrTypeOf(addr) == IF addr = Sensor THEN _ADDR_TYPE_PUBLIC ELSE _ADDR_TYPE_RANDOM
NamesOf(addr) == IF addr = Sensor THEN {"?", "Flower care"} ELSE {"?"}
\* Connection handles the host assigns: 0 .. MaxConn.
MaxConn == 1
ConnHandles == 0..MaxConn
AdvTypes == {_ADV_IND, _ADV_DIRECT_IND, _ADV_SCAN_IND, _ADV_NONCONN_IND, _ADV_SCAN_RSP}
Rssi == -60
\* Attribute handles an event may carry; 0 is what btstack reports for a write.
ReadHandles == {_HANDLE_READ_VERSION_BATTERY, _HANDLE_READ_SENSOR_DATA}
WriteHandles == {_HANDLE_WRITE_MODE_CHANGE, 0}
Services == {<<_GENERIC_ACCESS_SERVICE_UUID, 1, 9>>, <<_MIFLORA_DATA_SERVICE_UUID, 10, 20>>}

\* Firmware/battery payloads: battery 55, version "3.2.2" and variations.
FwExample == <<55, 0, 51, 46, 50, 46, 50>>
FwPayloads ==
    { <<>>, <<55>>, <<55, 0, 51>>, <<55, 0, 51, 46, 50, 46>>,
      FwExample, <<100, 7, 51, 46, 50, 46, 50>>, FwExample \o <<9, 9>>,
      <<20, 0, 50, 46, 55, 46, 48>>,
      <<55, 0, 195, 169, 50, 46, 50>>, <<55, 0, 255, 46, 50, 46, 50>> }

\* Sensor payloads: 10.0 degrees, 10 lx, 45 %, 15 uS/cm and variations.
SensorExample == <<100, 0, 0, 10, 0, 0, 0, 45, 15, 0>>
SensorPayloads ==
    { <<>>, <<100, 0, 0, 10, 0>>, <<100, 0, 0, 10, 0, 0, 0, 45, 15>>,
      SensorExample, <<100, 0, 200, 10, 0, 0, 0, 45, 15, 0>>,
      <<255, 255, 0, 255, 255, 255, 255, 100, 255, 255>>,
      <<0, 128, 0, 0, 0, 0, 128, 0, 255, 127>>,
      SensorExample \o <<2, 60, 0, 251, 52, 155>> }

\* Payloads of the unconstrained host for a read of the given handle: one
\* complete and one short payload of the characteristic's layout.
PayloadsOf(vh) ==
    IF vh = _HANDLE_READ_VERSION_BATTERY THEN {<<55>>, FwExample}
    ELSE {<<100, 0, 0, 10, 0>>, SensorExample}

\* The module switches as shipped: both discovery steps off.
Shipped == [_DISCOVER_SERVICES |-> FALSE, _DISCOVER_CHARACTERISTICS |-> FALSE]

---------------------------------------------------------------------------
(* Events the host stack may raise                                         *)

ScanResultEvents ==
    UNION { { [Event("ScanResult") EXCEPT !.at = AddrTypeOf(addr), !.addr = addr,
                                          !.adv = adv, !.rssi = Rssi, !.name = name]
              : adv \in AdvTypes, name \in NamesOf(addr) }
            : addr \in Addrs }

ScanDoneEvents == {Event("ScanDone")}

PeripheralConnectEvents ==
    { [Event("PeripheralConnect") EXCEPT !.conn = conn, !.at = at, !.addr = addr]
      : conn \in ConnHandles, at \in AddrTypes, addr \in Addrs }

PeripheralDisconnectEvents ==
    { [Event("PeripheralDisconnect") EXCEPT !.conn = conn] : conn \in ConnHandles }

ServiceResultEvents ==
    { [Event("ServiceResult") EXCEPT !.conn = conn, !.uuid = sv[1],
                                     !.sh = sv[2], !.eh = sv[3]]
      : conn \in ConnHandles, sv \in Services }

ServiceDoneEvents ==
    { [Event("ServiceDone") EXCEPT !.conn = conn] : conn \in ConnHandles }

CharacteristicResultEvents ==
    { [Event("CharacteristicResult") EXCEPT !.conn = conn, !.uuid = "1a01", !.sh = 52,
                                            !.vh = _HANDLE_READ_SENSOR_DATA]
      : conn \in ConnHandles }

CharacteristicDoneEvents ==
    { [Event("CharacteristicDone") EXCEPT !.conn = conn] : conn \in ConnHandles }

ReadResultEvents ==
    UNION { { [Event("ReadResult") EXCEPT !.conn = conn, !.vh = vh, !.data = data]
              : conn \in ConnHandles, data \in PayloadsOf(vh) }
            : vh \in ReadHandles }

ReadDoneEvents ==
    { [Event("ReadDone") EXCEPT !.conn = conn, !.vh = vh]
      : conn \in ConnHandles, vh \in {_HANDLE_READ_VERSION_BATTERY} }

WriteDoneEvents ==
    { [Event("WriteDone") EXCEPT !.conn = conn, !.vh = vh]
      : conn \in ConnHandles, vh \in WriteHandles }

NotifyEvents ==
    { [Event("Notify") EXCEPT !.conn = conn, !.vh = vh, !.data = SensorExample]
      : conn \in ConnHandles, vh \in ReadHandles }

Events ==
    ScanResultEvents \cup ScanDoneEvents \cup PeripheralConnectEvents
    \cup PeripheralDisconnectEvents \cup ServiceResultEvents \cup ServiceDoneEvents
    \cup CharacteristicResultEvents \cup CharacteristicDoneEvents
    \cup ReadResultEvents \cup ReadDoneEvents \cup WriteDoneEvents \cup NotifyEvents

---------------------------------------------------------------------------
(* Inputs of a step                                                        *)

\* The input of a step: the method called (m) with its callback argument
\* (cb), or the event handed to _irq (e), together with the connection
\* handle, the attribute handle and the read callback the driver held when
\* the input arrived.
Input(m, cb, e, s) ==
    [m |-> m, cb |-> cb, e |-> e, conn |-> s._conn_handle, vh |-> s._value_handle,
     rcb |-> s._read_callback]

NoInput == Input("None", NoneS, Event("None"), __init__)

---------------------------------------------------------------------------
(* wait_for() and wait_for_connection(): the polling loops                 *)

\* No wait call has been made.  Times are in ms since the call; held is the
\* time since which the awaited condition has held without interruption
\* (None: it does not hold), ever whether it has held at all during the call.
NoWait ==
    [pc |-> "idle", fn |-> "None", want |-> None, timeout |-> 0, t0 |-> 0,
     now |-> 0, wake |-> 0, ret |-> "None", held |-> None, ever |-> FALSE]

\* time.ticks_diff(a, b), for times less than half a ticks period apart.
ticks_diff(a, b) == a - b

\* self.state == state, or self.is_connected() == status (status 1: True).
Awaited(w, s) ==
    IF w.fn = "wait_for" THEN s.state = w.want
    ELSE is_connected(s) = (w.want = 1)

\* time.sleep_ms(_T_WAIT) returning at once.
sleep_ms_zero(w) == [w EXCEPT !.pc = "sleep", !.wake = w.now]

\* time.sleep_ms(_T_WAIT): the caller continues _T_WAIT ms later.
sleep_ms(w) == [w EXCEPT !.pc = "sleep", !.wake = w.now + _T_WAIT]

\* One pass of the loop: the deadline test, the condition, the sleep.
wait_poll(w, s) ==
    IF ticks_diff(w.now, w.t0) < w.timeout
        THEN
            IF Awaited(w, s) THEN [w EXCEPT !.pc = "done", !.ret = "True"]
            ELSE sleep_ms(w)
    ELSE [w EXCEPT !.pc = "done", !.ret = "False"]

\* t0 = time.ticks_ms() on entry of wait_for / wait_for_connection.
wait_enter(fn, want, timeout) ==
    [NoWait EXCEPT !.pc = "test", !.fn = fn, !.want = want, !.timeout = timeout]

\* Bookkeeping of the awaited condition in driver state s at time now.
Track(w, s, now) ==
    IF w.pc \in {"idle", "done"} THEN w
    ELSE [w EXCEPT !.held = IF Awaited(w, s) THEN (IF @ = None THEN now ELSE @)
                            ELSE None,
                   !.ever = @ \/ Awaited(w, s)]

---------------------------------------------------------------------------
(* Steps                                                                   *)

\* The outcome of a handler becomes the new state.
Commit(method, c) ==
    /\ op' = method
    /\ self' = c.s
    /\ calls' = c.calls
    /\ cbs' = c.cbs
    /\ exc' = c.exc
    /\ ret' = c.ret

HostUnchanged == UNCHANGED <<cfg, hostq, hostLog, started, hostFault, wait, inp>>

\* The dispatcher run on event e; _irq itself returns nothing.
Irq(e, ok) == Return(_irq(self, cfg, e, ok), "None")

Dispatch(e, ok) == Commit("_irq", Irq(e, ok))

Init ==
    /\ self = __init__
    /\ cfg = Shipped
    /\ op = "__init__"
    /\ calls = <<>>
    /\ cbs = <<>>
    /\ exc = "None"
    /\ ret = "None"
    /\ hostq = <<>>
    /\ hostLog = <<>>
    /\ started = FALSE
    /\ hostFault = FALSE
    /\ wait = NoWait
    /\ inp = NoInput

(* Events of the unconstrained host: any kind, any handles, any time. *)

EvScanResult ==
    \E e \in ScanResultEvents, ok \in BOOLEAN : Dispatch(e, ok) /\ HostUnchanged

EvScanDone ==
    \E e \in ScanDoneEvents, ok \in BOOLEAN : Dispatch(e, ok) /\ HostUnchanged

EvPeripheralConnect ==
    \E e \in PeripheralConnectEvents, ok \in BOOLEAN : Dispatch(e, ok) /\ HostUnchanged

EvPeripheralDisconnect ==
    \E e \in PeripheralDisconnectEvents : Dispatch(e, TRUE) /\ HostUnchanged

EvServiceResult ==
    \E e \in ServiceResultEvents : Dispatch(e, TRUE) /\ HostUnchanged

EvServiceDone ==
    \E e \in ServiceDoneEvents, ok \in BOOLEAN : Dispatch(e, ok) /\ HostUnchanged

EvCharacteristicResult ==
    \E e \in CharacteristicResultEvents : Dispatch(e, TRUE) /\ HostUnchanged

EvCharacteristicDone ==
    \E e \in CharacteristicDoneEvents, ok \in BOOLEAN : Dispatch(e, ok) /\ HostUnchanged

EvReadResult ==
    \E e \in ReadResultEvents : Dispatch(e, TRUE) /\ HostUnchanged

EvReadDone ==
    \E e \in ReadDoneEvents, ok \in BOOLEAN : Dispatch(e, ok) /\ HostUnchanged

EvWriteDone ==
    \E e \in WriteDoneEvents, ok \in BOOLEAN : Dispatch(e, ok) /\ HostUnchanged

EvNotify ==
    \E e \in NotifyEvents : Dispatch(e, TRUE) /\ HostUnchanged

(* Calls of the application. *)

\* miflora.search_addr = addr; miflora.search_service = <uuid>
set_target(c, addr) ==
    [c EXCEPT !.s.search_addr = addr,
              !.s.search_service = _GENERIC_ACCESS_SERVICE_UUID,
              !.s.has_search_service = TRUE]

SetTarget == Commit("set_target", set_target(Ctx(self), Sensor)) /\ HostUnchanged

\* miflora.scan(callback=miflora.scan_done)
ApiScan ==
    \E ok \in BOOLEAN : Commit("scan", scan(Ctx(self), "scan_done", ok)) /\ HostUnchanged

\* The address arguments the application passes to gap_connect(): none, or
\* the public address of the sensor.
ConnectArgs == {<<None, None>>, <<_ADDR_TYPE_PUBLIC, Sensor>>}

ApiGapConnect ==
    \E a \in ConnectArgs, ok \in BOOLEAN :
        Commit("gap_connect", gap_connect(Ctx(self), a[1], a[2], NoneS, ok)) /\ HostUnchanged

ApiDisconnect ==
    \E ok \in BOOLEAN : Commit("disconnect", disconnect(Ctx(self), ok)) /\ HostUnchanged

\* The driver used the way demo_auto uses it (set the target, scan or
\* connect, disconnect), against a host that may raise any event at any time.
Next ==
    \/ EvScanResult
    \/ EvScanDone
    \/ EvPeripheralConnect
    \/ EvPeripheralDisconnect
    \/ EvServiceResult
    \/ EvServiceDone
    \/ EvCharacteristicResult
    \/ EvCharacteristicDone
    \/ EvReadResult
    \/ EvReadDone
    \/ EvWriteDone
    \/ EvNotify
    \/ SetTarget
    \/ ApiScan
    \/ ApiGapConnect
    \/ ApiDisconnect

Spec == Init /\ [][Next]_vars

---------------------------------------------------------------------------
(* The decoders under every payload: a connected driver whose reads are    *)
(* answered with payloads of any length and content, and an application    *)
(* that repeats the reads.  The host accepts every request here.           *)

CodecPayloadsOf(vh) ==
    IF vh = _HANDLE_READ_VERSION_BATTERY THEN FwPayloads ELSE SensorPayloads

CodecConnect ==
    /\ Commit("gap_connect", gap_connect(Ctx(self), _ADDR_TYPE_PUBLIC, Sensor, NoneS, TRUE))
    /\ HostUnchanged

CodecPeripheralConnect ==
    \E conn \in ConnHandles :
        /\ Dispatch([Event("PeripheralConnect") EXCEPT !.conn = conn,
                        !.at = _ADDR_TYPE_PUBLIC, !.addr = Sensor], TRUE)
        /\ HostUnchanged

CodecReadResult ==
    \E conn \in ConnHandles, vh \in ReadHandles :
      \E data \in CodecPayloadsOf(vh) :
        /\ Dispatch([Event("ReadResult") EXCEPT !.conn = conn, !.vh = vh,
                                                !.data = data], TRUE)
        /\ HostUnchanged

CodecReadDone ==
    \E e \in ReadDoneEvents : Dispatch(e, TRUE) /\ HostUnchanged

CodecWriteDone ==
    \E e \in WriteDoneEvents : Dispatch(e, TRUE) /\ HostUnchanged

\* miflora.read_firmware(callback=miflora.read_firmware_done)
CodecReadFirmware ==
    /\ Commit("read_firmware", read_firmware(Ctx(self), "read_firmware_done", TRUE))
    /\ HostUnchanged

\* miflora.read_sensor(callback=miflora.read_sensor_done)
CodecReadSensor ==
    /\ Commit("read_sensor", read_sensor(Ctx(self), "read_sensor_done", TRUE))
    /\ HostUnchanged

CodecNext ==
    \/ CodecConnect
    \/ CodecPeripheralConnect
    \/ CodecReadResult
    \/ CodecReadDone
    \/ CodecWriteDone
    \/ CodecReadFirmware
    \/ CodecReadSensor

CodecSpec == Init /\ [][CodecNext]_vars

---------------------------------------------------------------------------
(* Auto mode against a host that keeps its event contract: the application *)
(* sets the target and issues one scan() or gap_connect(); every request   *)
(* the host accepts is answered with the events the contract lists for it, *)
(* delivered to the dispatcher one at a time and in order.  The host may   *)
(* still reject a request, and a read may return any payload.              *)

\* A payload that has the layout of its characteristic.
WellFormed(vh, data) ==
    IF vh = _HANDLE_READ_VERSION_BATTERY
        THEN Len(data) >= 7 /\ \A i \in 3..7 : data[i] < 128
    ELSE Len(data) >= 10

\* The possible answers (event sequences) of the host to an accepted request.
Answers(call) ==
    CASE call.fn = "gap_scan" /\ call.a # None ->
            { pre \o <<[Event("ScanResult") EXCEPT
                            !.at = AddrTypeOf(Sensor), !.addr = Sensor, !.adv = adv,
                            !.rssi = Rssi, !.name = name],
                       Event("ScanDone")>>
              : pre \in { <<>>, <<[Event("ScanResult") EXCEPT
                                      !.at = AddrTypeOf(Other), !.addr = Other,
                                      !.adv = _ADV_IND, !.rssi = Rssi]>> },
                adv \in {_ADV_IND, _ADV_DIRECT_IND, _ADV_SCAN_RSP},
                name \in NamesOf(Sensor) }
      [] call.fn = "gap_connect" ->
            { <<[Event("PeripheralConnect") EXCEPT
                    !.conn = conn, !.at = call.a, !.addr = call.b]>>
              : conn \in ConnHandles }
      [] call.fn = "gattc_read" ->
            { <<[Event("ReadResult") EXCEPT
                    !.conn = call.a, !.vh = call.b, !.data = data],
                [Event("ReadDone") EXCEPT !.conn = call.a, !.vh = call.b]>>
              : data \in CodecPayloadsOf(call.b) }
      [] call.fn = "gattc_write" ->
            { <<[Event("WriteDone") EXCEPT !.conn = call.a, !.vh = call.b]>> }
      [] call.fn = "gattc_discover_services" ->
            { found \o <<[Event("ServiceDone") EXCEPT !.conn = call.a]>>
              : found \in {<<>>} \cup
                          { <<[Event("ServiceResult") EXCEPT
                                  !.conn = call.a, !.uuid = sv[1],
                                  !.sh = sv[2], !.eh = sv[3]]>> : sv \in Services } }
      [] call.fn = "gattc_discover_characteristics" ->
            { <<[Event("CharacteristicResult") EXCEPT
                    !.conn = call.a, !.uuid = "1a01", !.sh = 52,
                    !.vh = _HANDLE_READ_SENSOR_DATA],
                [Event("CharacteristicDone") EXCEPT !.conn = call.a]>> }
      [] OTHER -> { <<>> }

\* The answers to the calls of one handler, rejected calls getting none.
RECURSIVE AnswersTo(_)
AnswersTo(cs) ==
    IF cs = <<>> THEN { <<>> }
    ELSE
        LET first == IF cs[1].ok THEN Answers(cs[1]) ELSE { <<>> }
        IN  { x \o y : x \in first, y \in AnswersTo(Tail(cs)) }

IsGatt(call) == call.fn \in {"gattc_read", "gattc_write", "gattc_discover_services",
                             "gattc_discover_characteristics"}

\* The GATT requests among the calls, as (function, attribute handle, data).
RECURSIVE GattOf(_)
GattOf(cs) ==
    IF cs = <<>> THEN <<>>
    ELSE (IF IsGatt(cs[1])
              THEN <<[fn |-> cs[1].fn, handle |-> cs[1].b, d |-> cs[1].d]>>
          ELSE <<>>) \o GattOf(Tail(cs))

Faulty(cs, ans) ==
    \/ \E i \in 1..Len(cs) : ~cs[i].ok
    \/ \E i \in 1..Len(ans) :
          ans[i].kind = "ReadResult" /\ ~WellFormed(ans[i].vh, ans[i].data)

\* The host's side of a step: it queues its answer to the calls made.
HostStep(rest, c) ==
    \E ans \in AnswersTo(c.calls) :
        /\ hostq' = rest \o ans
        /\ hostLog' = hostLog \o GattOf(c.calls)
        /\ hostFault' = (hostFault \/ Faulty(c.calls, ans))
        /\ UNCHANGED <<cfg, wait, inp>>

AutoSetTarget ==
    /\ ~started
    /\ self.search_addr = None
    /\ Commit("set_target", set_target(Ctx(self), Sensor))
    /\ HostUnchanged

\* miflora.scan(callback=miflora.scan_done)
AutoScan ==
    /\ ~started
    /\ self.search_addr # None
    /\ started' = TRUE
    /\ \E ok \in BOOLEAN :
          LET c == scan(Ctx(self), "scan_done", ok)
          IN  Commit("scan", c) /\ HostStep(hostq, c)

\* miflora.gap_connect(_ADDR_TYPE_PUBLIC, addr)
AutoConnect ==
    /\ ~started
    /\ started' = TRUE
    /\ \E ok \in BOOLEAN :
          LET c == gap_connect(Ctx(self), _ADDR_TYPE_PUBLIC, Sensor, NoneS, ok)
          IN  Commit("gap_connect", c) /\ HostStep(hostq, c)

\* The host raises the next event in flight.
AutoDeliver ==
    /\ hostq # <<>>
    /\ UNCHANGED started
    /\ \E ok \in BOOLEAN :
          LET c == Irq(Head(hostq), ok)
          IN  Commit("_irq", c) /\ HostStep(Tail(hostq), c)

AutoNext ==
    \/ AutoSetTarget
    \/ AutoScan
    \/ AutoConnect
    \/ AutoDeliver

\* Events in flight are eventually delivered.
AutoSpec == Init /\ [][AutoNext]_vars /\ WF_vars(AutoDeliver)

---------------------------------------------------------------------------
(* The application waiting for a state or a connection status while the    *)
(* host raises connection events.                                          *)

\* Timeouts of 0 up to just below MaxPolls poll intervals, in half intervals.
MaxPolls == 2
Timeouts == { k * (_T_WAIT \div 2) : k \in 0..(2 * MaxPolls - 1) }

\* wait_for(state, timeout_ms) / wait_for_connection(status, timeout_ms)
WaitArgs ==
    ({"wait_for"} \X {_S_INIT, _S_SERVICE_DONE}) \cup ({"wait_for_connection"} \X {0, 1})

WaitUnchanged ==
    UNCHANGED <<self, cfg, op, calls, cbs, exc, ret, hostq, hostLog, started, hostFault, inp>>

WaitCall ==
    /\ wait.pc \in {"idle", "done"}
    /\ \E a \in WaitArgs, timeout \in Timeouts :
          wait' = Track(wait_enter(a[1], a[2], timeout), self, 0)
    /\ WaitUnchanged

WaitPoll ==
    /\ wait.pc = "test"
    /\ wait' = wait_poll(wait, self)
    /\ WaitUnchanged

\* The clock advances while the caller sleeps.
WaitTick ==
    /\ wait.pc = "sleep"
    /\ wait.now < wait.wake
    /\ wait' = Track([wait EXCEPT !.now = @ + (_T_WAIT \div 2)], self,
                     wait.now + (_T_WAIT \div 2))
    /\ WaitUnchanged

WaitWake ==
    /\ wait.pc = "sleep"
    /\ wait.now >= wait.wake
    /\ wait' = [wait EXCEPT !.pc = "test"]
    /\ WaitUnchanged

WaitEvents == PeripheralConnectEvents \cup PeripheralDisconnectEvents \cup ServiceDoneEvents

\* An event handled while the application waits (or before it does).
WaitEvent ==
    /\ wait.pc # "done"
    /\ \E e \in WaitEvents, ok \in BOOLEAN : Dispatch(e, ok)
    /\ wait' = Track(wait, self', wait.now)
    /\ UNCHANGED <<cfg, hostq, hostLog, started, hostFault, inp>>

WaitConnect ==
    /\ wait.pc = "idle"
    /\ Commit("gap_connect", gap_connect(Ctx(self), _ADDR_TYPE_PUBLIC, Sensor, NoneS, TRUE))
    /\ HostUnchanged

WaitNext ==
    \/ WaitCall
    \/ WaitPoll
    \/ WaitTick
    \/ WaitWake
    \/ WaitEvent
    \/ WaitConnect

\* The waiting caller keeps running and its clock keeps advancing.
WaitSpec ==
    /\ Init
    /\ [][WaitNext]_vars
    /\ WF_vars(WaitPoll)
    /\ WF_vars(WaitTick)
    /\ WF_vars(WaitWake)

---------------------------------------------------------------------------
(* The request methods called in every connection status, against a host   *)
(* that accepts or rejects each request, while the connection comes and    *)
(* goes and reads are answered.                                            *)

\* Callbacks the application passes.
AppCallbacks == {"app_a", "app_b"}

GhostUnchanged == UNCHANGED <<cfg, hostq, hostLog, started, hostFault, wait>>

\* The application calls method m with callback cb; c is the outcome.
Request(m, cb, c) ==
    /\ Commit(m, c)
    /\ inp' = Input(m, cb, Event("None"), self)

\* The host raises event e.
Raised(e, ok) ==
    /\ Dispatch(e, ok)
    /\ inp' = Input("_irq", NoneS, e, self)

ReqScan ==
    \E ok \in BOOLEAN :
        /\ Request("scan", "app_a", scan(Ctx(self), "app_a", ok))
        /\ GhostUnchanged

ReqGapConnect ==
    \E a \in ConnectArgs, ok \in BOOLEAN :
        /\ Request("gap_connect", NoneS, gap_connect(Ctx(self), a[1], a[2], NoneS, ok))
        /\ GhostUnchanged

ReqDiscoverServices ==
    \E ok \in BOOLEAN :
        /\ Request("discover_services", "app_a", discover_services(Ctx(self), "app_a", ok))
        /\ GhostUnchanged

ReqDiscoverCharacteristics ==
    \E ok \in BOOLEAN :
        /\ Request("discover_characteristics", "app_a",
                   discover_characteristics(Ctx(self), 1, 9, "app_a", ok))
        /\ GhostUnchanged

ReqRead ==
    \E cb \in AppCallbacks, ok \in BOOLEAN :
        /\ Request("read", cb, read(Ctx(self), cb, ok))
        /\ GhostUnchanged

ReqReadFirmware ==
    \E ok \in BOOLEAN :
        /\ Request("read_firmware", "read_firmware_done",
                   read_firmware(Ctx(self), "read_firmware_done", ok))
        /\ GhostUnchanged

ReqModeChange ==
    \E ok \in BOOLEAN :
        /\ Request("mode_change", "mode_change_done",
                   mode_change(Ctx(self), "mode_change_done", ok))
        /\ GhostUnchanged

ReqReadSensor ==
    \E cb \in AppCallbacks, ok \in BOOLEAN :
        /\ Request("read_sensor", cb, read_sensor(Ctx(self), cb, ok))
        /\ GhostUnchanged

ReqEvents ==
    { e \in PeripheralConnectEvents : e.addr = Sensor /\ e.at = AddrTypeOf(Sensor) }
        \cup PeripheralDisconnectEvents
        \cup { e \in ReadResultEvents : WellFormed(e.vh, e.data) }

ReqEvent ==
    \E e \in ReqEvents, ok \in BOOLEAN :
        /\ Raised(e, ok)
        /\ GhostUnchanged

RequestNext ==
    \/ ReqScan
    \/ ReqGapConnect
    \/ ReqDiscoverServices
    \/ ReqDiscoverCharacteristics
    \/ ReqRead
    \/ ReqReadFirmware
    \/ ReqModeChange
    \/ ReqReadSensor
    \/ ReqEvent

RequestSpec == Init /\ [][RequestNext]_vars

---------------------------------------------------------------------------
(* Manual use of a session: the application connects, registers a          *)
(* notification callback, issues reads with its own callbacks, possibly    *)
(* while an earlier read is pending, and disconnects; the host raises      *)
(* connection, read, write and notification events with any handles.       *)

\* Callbacks the application passes to the read methods.
ReadCallbacks == {"app_a", "app_b", "app_again"}

ManConnect ==
    /\ Request("gap_connect", NoneS,
               gap_connect(Ctx(self), _ADDR_TYPE_PUBLIC, Sensor, NoneS, TRUE))
    /\ GhostUnchanged

ManDisconnect ==
    \E ok \in BOOLEAN :
        /\ Request("disconnect", NoneS, disconnect(Ctx(self), ok))
        /\ GhostUnchanged

ManOnNotify ==
    \E cb \in {"app_a", NoneS} :
        /\ Request("on_notify", cb, on_notify(Ctx(self), cb))
        /\ GhostUnchanged

ManRead ==
    \E cb \in ReadCallbacks :
        /\ Request("read", cb, read(Ctx(self), cb, TRUE))
        /\ GhostUnchanged

ManReadFirmware ==
    \E cb \in ReadCallbacks :
        /\ Request("read_firmware", cb, read_firmware(Ctx(self), cb, TRUE))
        /\ GhostUnchanged

ManReadSensor ==
    \E cb \in ReadCallbacks :
        /\ Request("read_sensor", cb, read_sensor(Ctx(self), cb, TRUE))
        /\ GhostUnchanged

ManEvents ==
    { e \in PeripheralConnectEvents : e.addr = Sensor /\ e.at = AddrTypeOf(Sensor) }
        \cup PeripheralDisconnectEvents
        \cup ReadResultEvents
        \cup ReadDoneEvents
        \cup WriteDoneEvents
        \cup NotifyEvents

ManEvent ==
    \E e \in ManEvents :
        /\ Raised(e, TRUE)
        /\ GhostUnchanged

ManualNext ==
    \/ ManConnect
    \/ ManDisconnect
    \/ ManOnNotify
    \/ ManRead
    \/ ManReadFirmware
    \/ ManReadSensor
    \/ ManEvent

ManualSpec == Init /\ [][ManualNext]_vars

---------------------------------------------------------------------------
(* Scanning: the application sets the address to search for and scans,     *)
(* with the library's callback, its own or none, as often as it likes.     *)
(* While a scan runs the host reports advertisements of the sensor and of  *)
(* another device; it ends each scan with one ScanDone.  It also reports   *)
(* the connection that auto mode requests, and its end.                    *)

\* The callback argument of scan(): none (the default), scan_done, or a
\* function of the application.
ScanCallbacks == {NoneS, "scan_done", "app_a"}

ScanFrame == UNCHANGED <<cfg, hostLog, started, hostFault, wait>>

\* miflora.search_addr = addr
ScanTarget ==
    /\ Request("set_target", NoneS, set_target(Ctx(self), Sensor))
    /\ ScanFrame
    /\ UNCHANGED hostq

\* scan(callback): an accepted gap_scan starts (or restarts) the scan, whose
\* end the host will report.
ScanStart ==
    \E cb \in ScanCallbacks, ok \in BOOLEAN :
        /\ Request("scan", cb, scan(Ctx(self), cb, ok))
        /\ hostq' = IF ok THEN <<Event("ScanDone")>> ELSE hostq
        /\ ScanFrame

\* An advertisement received while the scan runs.
ScanReport ==
    /\ hostq # <<>>
    /\ \E e \in ScanResultEvents, ok \in BOOLEAN : Raised(e, ok)
    /\ ScanFrame
    /\ UNCHANGED hostq

\* The scan ends: by its timeout, or because the driver stopped it.
ScanEnd ==
    /\ hostq # <<>>
    /\ \E ok \in BOOLEAN : Raised(Head(hostq), ok)
    /\ hostq' = Tail(hostq)
    /\ ScanFrame

ScanLinkEvents ==
    { e \in PeripheralConnectEvents : e.addr = Sensor /\ e.at = AddrTypeOf(Sensor) }
        \cup PeripheralDisconnectEvents

ScanLink ==
    /\ \E e \in ScanLinkEvents, ok \in BOOLEAN : Raised(e, ok)
    /\ ScanFrame
    /\ UNCHANGED hostq

ScanNext ==
    \/ ScanTarget
    \/ ScanStart
    \/ ScanReport
    \/ ScanEnd
    \/ ScanLink

ScanSpec == Init /\ [][ScanNext]_vars

---------------------------------------------------------------------------
(* A session in each build of the module: the discovery switches as        *)
(* shipped or turned on; the application connects with or without a        *)
(* callback, requests the mode change itself, and disconnects; the host    *)
(* reports connections to any peer, and read, write and discovery          *)
(* completions with any handles, at any time.  The host accepts every      *)
(* request here, and reads return payloads of their layout.                *)

\* The values of _DISCOVER_SERVICES and _DISCOVER_CHARACTERISTICS.
Switches == [_DISCOVER_SERVICES : BOOLEAN, _DISCOVER_CHARACTERISTICS : BOOLEAN]

\* The module is built with other switches than the shipped ones.
SesSwitches ==
    /\ op = "__init__"
    /\ cfg = Shipped
    /\ cfg' \in Switches \ {Shipped}
    /\ UNCHANGED <<self, op, calls, cbs, exc, ret, hostq, hostLog, started, hostFault,
                   wait, inp>>

SesConnect ==
    \E a \in ConnectArgs, cb \in {NoneS, "app_a"} :
        /\ Request("gap_connect", cb, gap_connect(Ctx(self), a[1], a[2], cb, TRUE))
        /\ GhostUnchanged

SesModeChange ==
    \E cb \in {NoneS, "app_a", "mode_change_done"} :
        /\ Request("mode_change", cb, mode_change(Ctx(self), cb, TRUE))
        /\ GhostUnchanged

SesDisconnect ==
    /\ Request("disconnect", NoneS, disconnect(Ctx(self), TRUE))
    /\ GhostUnchanged

SesEvents ==
    PeripheralConnectEvents \cup PeripheralDisconnectEvents \cup ServiceDoneEvents
        \cup { e \in ReadResultEvents : WellFormed(e.vh, e.data) }
        \cup ReadDoneEvents \cup WriteDoneEvents

SesEvent ==
    \E e \in SesEvents :
        /\ Raised(e, TRUE)
        /\ GhostUnchanged

SessionNext ==
    \/ SesSwitches
    \/ SesConnect
    \/ SesModeChange
    \/ SesDisconnect
    \/ SesEvent

SessionSpec == Init /\ [][SessionNext]_vars

---------------------------------------------------------------------------
(* Auto mode with the discovery steps switched on, against the host that   *)
(* keeps its event contract: a service discovery is answered with no       *)
(* service or one service of the peer and then ServiceDone, a              *)
(* characteristic discovery with a characteristic and CharacteristicDone.  *)

DiscoverNext ==
    \/ SesSwitches
    \/ AutoSetTarget
    \/ AutoScan
    \/ AutoConnect
    \/ AutoDeliver

DiscoverSpec == Init /\ [][DiscoverNext]_vars /\ WF_vars(AutoDeliver)

---------------------------------------------------------------------------
(* Sessions one after another.  Every gap_disconnect the host accepts is   *)
(* answered with a PeripheralDisconnect for that connection handle, which  *)
(* the host may deliver late; a new connection may get the handle value of *)
(* a closed one.  hostq holds the disconnect events not yet delivered.     *)

MaxStale == 2

StaleConnect ==
    /\ Request("gap_connect", NoneS,
               gap_connect(Ctx(self), _ADDR_TYPE_PUBLIC, Sensor, NoneS, TRUE))
    /\ ScanFrame
    /\ UNCHANGED hostq

StalePeerEvents ==
    { e \in PeripheralConnectEvents : e.at = _ADDR_TYPE_PUBLIC /\ e.addr = Sensor }
        \cup { e \in ReadResultEvents : WellFormed(e.vh, e.data) }

StalePeerEvent ==
    /\ \E e \in StalePeerEvents : Raised(e, TRUE)
    /\ ScanFrame
    /\ UNCHANGED hostq

StaleDisconnect ==
    /\ Len(hostq) < MaxStale
    /\ Request("disconnect", NoneS, disconnect(Ctx(self), TRUE))
    /\ hostq' = hostq \o [i \in 1..Len(calls') |->
                            [Event("PeripheralDisconnect") EXCEPT !.conn = calls'[i].a]]
    /\ ScanFrame

StaleDeliver ==
    /\ hostq # <<>>
    /\ Raised(Head(hostq), TRUE)
    /\ hostq' = Tail(hostq)
    /\ ScanFrame

StaleNext ==
    \/ StaleConnect
    \/ StalePeerEvent
    \/ StaleDisconnect
    \/ StaleDeliver

StaleSpec == Init /\ [][StaleNext]_vars

---------------------------------------------------------------------------
(* read_firmware() and read_sensor() statement by statement.  The          *)
(* dispatcher runs from the scheduler, between any two statements of the   *)
(* application's call; wait.pc is the statement the call has reached and   *)
(* wait.fn the method.  The application passes its own callback to each    *)
(* method: app_a to read_firmware, app_b to read_sensor.                   *)

PreMethods == {"read_firmware", "read_sensor"}

PreCallbackOf(m) == IF m = "read_firmware" THEN "app_a" ELSE "app_b"

PreHandleOf(m) ==
    IF m = "read_firmware" THEN _HANDLE_READ_VERSION_BATTERY
    ELSE _HANDLE_READ_SENSOR_DATA

PreFrame == UNCHANGED <<cfg, hostq, hostLog, started, hostFault>>

PreConnect ==
    /\ wait.pc = "idle"
    /\ Request("gap_connect", NoneS,
               gap_connect(Ctx(self), _ADDR_TYPE_PUBLIC, Sensor, NoneS, TRUE))
    /\ PreFrame
    /\ UNCHANGED wait

\* if not self.is_connected(): return / self._read_callback = callback
PreStoreCallback ==
    /\ wait.pc = "idle"
    /\ \E m \in PreMethods :
          /\ Request(m, PreCallbackOf(m),
                     IF ~is_connected(self) THEN Ctx(self)
                     ELSE Ctx([self EXCEPT !._read_callback = PreCallbackOf(m)]))
          /\ wait' = IF ~is_connected(self) THEN wait
                     ELSE [NoWait EXCEPT !.pc = "store_handle", !.fn = m]
    /\ PreFrame

\* self._value_handle = _HANDLE_READ_VERSION_BATTERY / _HANDLE_READ_SENSOR_DATA
PreStoreHandle ==
    /\ wait.pc = "store_handle"
    /\ Request(wait.fn, PreCallbackOf(wait.fn),
               Ctx([self EXCEPT !._value_handle = PreHandleOf(wait.fn)]))
    /\ wait' = [wait EXCEPT !.pc = "submit"]
    /\ PreFrame

\* self._ble.gattc_read(self._conn_handle, self._value_handle)
PreSubmit ==
    /\ wait.pc = "submit"
    /\ Request(wait.fn, PreCallbackOf(wait.fn),
               GattCall(Ctx(self), "gattc_read", self._conn_handle,
                        self._value_handle, <<>>, TRUE))
    /\ wait' = NoWait
    /\ PreFrame

PreEvents ==
    { e \in PeripheralConnectEvents : e.at = _ADDR_TYPE_PUBLIC /\ e.addr = Sensor }
        \cup { e \in ReadResultEvents : WellFormed(e.vh, e.data) }
        \cup PeripheralDisconnectEvents

\* An event is dispatched, whatever statement the application has reached.
PreEvent ==
    /\ \E e \in PreEvents : Raised(e, TRUE)
    /\ PreFrame
    /\ UNCHANGED wait

PreemptNext ==
    \/ PreConnect
    \/ PreStoreCallback
    \/ PreStoreHandle
    \/ PreSubmit
    \/ PreEvent

PreemptSpec == Init /\ [][PreemptNext]_vars

---------------------------------------------------------------------------
(* Properties                                                              *)

Readings(s) == <<s.battery, s.version, s.temp, s.light, s.moist, s.cond>>

\* The dispatcher has just run read_firmware_done / read_sensor_done on the
\* payload of a ReadResult (the payload is then in self._value).
FwDecodeRan ==
    op = "_irq" /\ cbs = <<[slot |-> "read", fn |-> "read_firmware_done"]>>
SensorDecodeRan ==
    op = "_irq" /\ cbs = <<[slot |-> "read", fn |-> "read_sensor_done"]>>

\* C1: whatever events the host raises, a step lowers the session state
\* only by a full reset of the driver (a disconnect); otherwise the state
\* never decreases along Init < ScanDone < ... < SensorRead.
C1_StateNeverRegresses ==
    [][self'.state < self.state => self' = _reset(self)]_vars

\* An event carrying a connection handle (and, for the read, write and
\* notify events, an attribute handle) other than the tracked ones.
ConnKinds ==
    {"PeripheralConnect", "PeripheralDisconnect", "ServiceResult", "ServiceDone",
     "CharacteristicResult", "CharacteristicDone", "ReadResult", "ReadDone",
     "WriteDone", "Notify"}
AttrKinds == {"ReadResult", "ReadDone", "WriteDone", "Notify"}
Mismatched(s, e) ==
    /\ e.kind \in ConnKinds
    /\ \/ e.conn # s._conn_handle
       \/ e.kind \in AttrKinds /\ e.vh # s._value_handle

\* The step is the dispatcher handling event e with host answer ok.
StepIs(e, ok) ==
    LET c == Irq(e, ok)
    IN  /\ op' = "_irq"
        /\ self' = c.s
        /\ calls' = c.calls
        /\ cbs' = c.cbs
        /\ exc' = c.exc

\* C2: the dispatcher handling an event whose connection or attribute
\* handle differs from the tracked one leaves the readings and the session
\* state unchanged, invokes no callback and submits no host request.
C2_MismatchedEventDiscarded ==
    [][\A e \in Events, ok \in BOOLEAN :
          (Mismatched(self, e) /\ StepIs(e, ok)) =>
              /\ Readings(self') = Readings(self)
              /\ self'.state = self.state
              /\ cbs' = <<>>
              /\ calls' = <<>>]_vars

SlotOf(s, slot) ==
    CASE slot = "scan"  -> s._scan_callback
      [] slot = "conn"  -> s._conn_callback
      [] slot = "serv"  -> s._serv_done_callback
      [] slot = "char"  -> s._char_done_callback
      [] slot = "read"  -> s._read_callback
      [] slot = "write" -> s._write_callback
      [] OTHER          -> s._notify_callback

\* C3: when the dispatcher returns from an event in which it invoked the
\* callback of a one-shot slot, that slot is empty.
C3_SlotEmptyAfterInvocation ==
    (op = "_irq" /\ exc = "None") =>
        \A i \in 1..Len(cbs) :
            cbs[i].slot # "notify" => SlotOf(self, cbs[i].slot) = NoneS

\* C6: gap_connect() without address arguments and without a cached
\* address returns False and calls nothing of the host stack.
C6_ConnectWithoutAddressRejected ==
    (op = "gap_connect" /\ (self._addr_type = None \/ self._addr = None)) =>
        (ret = "False" /\ exc = "None" /\ calls = <<>>)

\* C7: a sensor payload shorter than 10 bytes makes read_sensor_done fail
\* (it raises) and leaves temp, light, moist, cond and the state as they were.
C7_ShortSensorPayloadRejected ==
    [][(SensorDecodeRan' /\ Len(self'._value) < 10) =>
          /\ exc' = "ValueError"
          /\ self'.temp = self.temp
          /\ self'.light = self.light
          /\ self'.moist = self.moist
          /\ self'.cond = self.cond
          /\ self'.state = self.state]_vars

\* A short sensor payload has been rejected while earlier readings exist.
C7_Witness ==
    /\ SensorDecodeRan
    /\ Len(self._value) < 10
    /\ Len(self._value) > 2
    /\ exc = "ValueError"
    /\ self.temp # None
    /\ self.state = _S_READ_SENSOR_DONE

\* C8: a firmware/battery payload shorter than 7 bytes makes
\* read_firmware_done fail and leaves battery, version and the state as
\* they were.
C8_ShortFirmwarePayloadRejected ==
    [][(FwDecodeRan' /\ Len(self'._value) < 7) =>
          /\ exc' # "None"
          /\ self'.battery = self.battery
          /\ self'.version = self.version
          /\ self'.state = self.state]_vars

\* The outcome the firmware layout prescribes for payload v: battery from
\* byte 0, version from bytes 2 to 6, one character per byte.
FwDecoded(v) ==
    /\ exc = "None"
    /\ self.battery = v[1]
    /\ self.version = <<v[3], v[4], v[5], v[6], v[7]>>
    /\ self.state = _S_READ_FIRMWARE_DONE

\* C9 as stated: for every firmware/battery payload of at least 7 bytes,
\* battery is byte 0, version the 5 characters of bytes 2 to 6 and the
\* state FirmwareRead.
C9_AnyFirmwarePayloadDecoded ==
    (FwDecodeRan /\ Len(self._value) >= 7) => FwDecoded(self._value)

\* C9 amended: for every firmware/battery payload of at least 7 bytes whose
\* bytes 2 to 6 are ASCII (below 0x80), battery is byte 0, version the 5
\* characters of bytes 2 to 6 and the state FirmwareRead; byte 1 and the
\* bytes after index 6 have no influence.
C9_AsciiFirmwarePayloadDecoded ==
    (/\ FwDecodeRan
     /\ Len(self._value) >= 7
     /\ \A i \in 3..7 : self._value[i] < 128) => FwDecoded(self._value)

\* [55,0,0x33,0x2E,0x32,0x2E,0x32] has been decoded to 55 and "3.2.2".
C9_Witness ==
    /\ FwDecodeRan
    /\ self._value = FwExample
    /\ self.battery = 55
    /\ self.version = <<51, 46, 50, 46, 50>>
    /\ self.state = _S_READ_FIRMWARE_DONE

\* Little-endian 16-bit value of two bytes, signed.
S16(lo, hi) == IF hi >= 128 THEN lo + 256 * hi - 65536 ELSE lo + 256 * hi

\* C10: for every sensor payload of at least 10 bytes, temp is the signed
\* little-endian 16-bit value of bytes 0-1 (tenths of a degree), light the
\* unsigned little-endian 32-bit value of bytes 3-6, moist byte 7, cond the
\* signed little-endian 16-bit value of bytes 8-9, and the state SensorRead.
C10_SensorPayloadDecoded ==
    (SensorDecodeRan /\ Len(self._value) >= 10) =>
        LET v == self._value
        IN  /\ exc = "None"
            /\ self.temp = S16(v[1], v[2])
            /\ self.light = [hi |-> v[6] + 256 * v[7], lo |-> v[4] + 256 * v[5]]
            /\ self.moist = v[8]
            /\ self.cond = S16(v[9], v[10])
            /\ self.state = _S_READ_SENSOR_DONE

\* [0x64,0,0,0x0A,0,0,0,0x2D,0x0F,0] has been decoded to 10.0 degrees
\* (100 tenths), 10 lx, 45 % and 15 uS/cm.
C10_Witness ==
    /\ SensorDecodeRan
    /\ self._value = SensorExample
    /\ self.temp = 100
    /\ self.light = [hi |-> 0, lo |-> 10]
    /\ self.moist = 45
    /\ self.cond = 15
    /\ self.state = _S_READ_SENSOR_DONE

\* C4 as stated: after the one scan() or gap_connect(), with every accepted
\* request answered, the state reaches SensorRead without a further call:
\* once no event is in flight any more, the state is SensorRead.
C4_AutoCompletes ==
    (started /\ hostq = <<>>) => self.state = _S_READ_SENSOR_DONE

\* C4 amended: after the one scan() or gap_connect(), if the host accepts
\* every request and answers each read with a payload of its layout (at
\* least 7 bytes with an ASCII version, at least 10 bytes), the state
\* eventually reaches SensorRead without a further call.
C4_AutoCompletesOnSoundHost ==
    started ~> (self.state = _S_READ_SENSOR_DONE \/ hostFault)

\* The three GATT requests of one auto-mode session.
AutoRequests ==
    << [fn |-> "gattc_read", handle |-> 56, d |-> <<>>],
       [fn |-> "gattc_write", handle |-> 51, d |-> <<160, 31, 1>>],
       [fn |-> "gattc_read", handle |-> 53, d |-> <<>>] >>

\* The auto-mode session ran to its end on a sound host.
C4_Witness ==
    /\ started
    /\ ~hostFault
    /\ hostq = <<>>
    /\ self.state = _S_READ_SENSOR_DONE
    /\ hostLog = AutoRequests

IsPrefix(p, q) == Len(p) <= Len(q) /\ \A i \in 1..Len(p) : p[i] = q[i]

\* C5: the GATT requests of an auto-mode session are, in this order and
\* each once, read 0x38, write [0xA0, 0x1F] with response to 0x33, read
\* 0x35: at any time a prefix of that sequence, all of it once the state is
\* SensorRead, and the read of 0x35 only after the WriteDone was processed
\* (the state is then ModeChanged or later).
C5_GattRequestOrder ==
    /\ IsPrefix(hostLog, AutoRequests)
    /\ self.state = _S_READ_SENSOR_DONE => hostLog = AutoRequests
    /\ Len(hostLog) = 3 => self.state >= _S_MODE_CHANGE_DONE

\* All three requests were made and the sensor read has been answered.
C5_Witness ==
    /\ hostLog = AutoRequests
    /\ self.state = _S_READ_SENSOR_DONE
    /\ self._value_handle = 53
    /\ op = "_irq"

\* C11: a finished wait returned False if the awaited condition never held
\* during the call, and returned True, at most one poll interval after the
\* condition became true, if the condition held at the time of the call or
\* became true before the deadline and stayed true.
C11_WaitResult ==
    wait.pc = "done" =>
        /\ ~wait.ever => wait.ret = "False"
        /\ (wait.held # None /\ (wait.held = 0 \/ wait.held < wait.timeout)) =>
              (wait.ret = "True" /\ wait.now <= wait.held + _T_WAIT)

\* C12: every wait_for / wait_for_connection call returns a boolean,
\* whatever events are handled while it waits.
C12_WaitTerminates ==
    (wait.pc \in {"test", "sleep"}) ~> (wait.pc = "done" /\ wait.ret \in {"True", "False"})

\* A wait ran into its deadline after sleeping, with events handled meanwhile.
C12_Witness ==
    /\ wait.pc = "done"
    /\ wait.ret = "False"
    /\ wait.now >= wait.timeout
    /\ wait.now > 0
    /\ wait.ever

\* The one-shot callback slots and the notification slot.
Slots(s) ==
    <<s._scan_callback, s._conn_callback, s._serv_done_callback,
      s._char_done_callback, s._read_callback, s._write_callback,
      s._notify_callback>>

NeedConnection ==
    {"read", "read_firmware", "read_sensor", "discover_services",
     "discover_characteristics"}

\* C15: read, read_firmware, read_sensor, discover_services and
\* discover_characteristics called while not connected return without a
\* host call, store no callback and leave the tracked attribute handle and
\* the session state as they were.
C15_RequestWithoutConnectionIgnored ==
    [][(inp'.m \in NeedConnection /\ ~is_connected(self)) =>
          /\ calls' = <<>>
          /\ exc' = "None"
          /\ Slots(self') = Slots(self)
          /\ self'._value_handle = self._value_handle
          /\ self'.state = self.state]_vars

\* read_sensor(app_b) was called without a connection and stored nothing.
C15_Witness ==
    /\ inp.m = "read_sensor"
    /\ inp.cb = "app_b"
    /\ inp.conn = None
    /\ calls = <<>>
    /\ self._read_callback # "app_b"
    /\ self._value_handle # _HANDLE_READ_SENSOR_DATA

HostRequests ==
    {"scan", "gap_connect", "discover_services", "discover_characteristics",
     "read", "read_firmware", "mode_change", "read_sensor"}

Rejected(cs) == \E i \in 1..Len(cs) : ~cs[i].ok

\* C16: a request method whose host call is rejected returns normally
\* (gap_connect returns False), invokes no callback and leaves the session
\* state and the readings unchanged; gap_connect returns True exactly when
\* the host accepted its connect request.
C16_RejectedRequestReturns ==
    [][inp'.m \in HostRequests =>
          /\ Rejected(calls') =>
                /\ exc' = "None"
                /\ cbs' = <<>>
                /\ self'.state = self.state
                /\ Readings(self') = Readings(self)
                /\ inp'.m = "gap_connect" => ret' = "False"
          /\ inp'.m = "gap_connect" =>
                (ret' = "True" <=> (calls' # <<>> /\ ~Rejected(calls')))]_vars

\* A read_sensor request was rejected while firmware readings exist.
C16_Witness ==
    /\ inp.m = "read_sensor"
    /\ Rejected(calls)
    /\ exc = "None"
    /\ self.battery # None
    /\ self.state = _S_READ_FIRMWARE_DONE
    /\ self._read_callback = inp.cb

\* C13: a PeripheralDisconnect event carrying the current connection handle
\* resets the driver completely: state Init, no connection handle, no
\* cached peer address, address type or name, signal strength 0, no
\* readings, every callback slot empty, no tracked attribute handle.
C13_DisconnectEventResets ==
    [][(/\ inp'.m = "_irq"
        /\ inp'.e.kind = "PeripheralDisconnect"
        /\ inp'.e.conn = self._conn_handle) =>
          /\ exc' = "None"
          /\ self'.state = 0
          /\ self'._conn_handle = None
          /\ self'._addr = None
          /\ self'._addr_type = None
          /\ self'.name = NoneS
          /\ self'.rssi = 0
          /\ self'.battery = None
          /\ self'.version = NoneB
          /\ self'.temp = None
          /\ self'.light = NoneL
          /\ self'.moist = None
          /\ self'.cond = None
          /\ Slots(self') = <<NoneS, NoneS, NoneS, NoneS, NoneS, NoneS, NoneS>>
          /\ self'._value_handle = None]_vars

\* The disconnect event of the current connection has reset a session that
\* tracked an attribute handle and had a read pending.
C13_Witness ==
    /\ inp.m = "_irq"
    /\ inp.e.kind = "PeripheralDisconnect"
    /\ inp.conn # None
    /\ inp.e.conn = inp.conn
    /\ inp.vh # None
    /\ inp.rcb # NoneS
    /\ self.state = _S_INIT
    /\ self._conn_handle = None
    /\ self._value_handle = None

\* C14: disconnect() called while is_connected() is true, whatever the
\* connection handle (0 included), submits one gap_disconnect for that
\* handle and resets the driver: afterwards is_connected() is false and
\* the state is Init.
C14_DisconnectWhenConnected ==
    [][(op' = "disconnect" /\ is_connected(self)) =>
          /\ Len(calls') = 1
          /\ calls'[1].fn = "gap_disconnect"
          /\ calls'[1].a = self._conn_handle
          /\ ~is_connected(self')
          /\ self'.state = _S_INIT]_vars

\* C17: the dispatcher returns normally, whatever the event, the driver
\* state and the host's answer to the request it makes.
C17_DispatcherNeverRaises ==
    op = "_irq" => exc = "None"

\* C18: when the read callback that ran inside the dispatcher has requested
\* the next read with a new callback, that callback is registered when the
\* dispatcher returns.
C18_CallbackRegisteredInCallbackKept ==
    [][(/\ inp'.m = "_irq"
        /\ inp'.e.kind = "ReadResult"
        /\ cbs' = <<[slot |-> "read", fn |-> "app_again"]>>
        /\ exc' = "None") =>
          self'._read_callback = "app_b"]_vars

\* C19: a Notify event whose handles match the tracked ones invokes the
\* registered notification callback with the payload and leaves it
\* registered; the registration changes only by on_notify() or by a reset.
C19_NotifyCallbackPersistent ==
    [][/\ (/\ inp'.m = "_irq"
           /\ inp'.e.kind = "Notify"
           /\ inp'.e.conn = self._conn_handle
           /\ inp'.e.vh = self._value_handle
           /\ self._notify_callback # NoneS) =>
              /\ cbs' = <<[slot |-> "notify", fn |-> self._notify_callback]>>
              /\ self'._value = inp'.e.data
              /\ self'._notify_callback = self._notify_callback
       /\ self'._notify_callback # self._notify_callback =>
              (inp'.m = "on_notify" \/ self' = _reset(self))]_vars

\* A matching notification has been passed to the registered callback,
\* which is still registered.
C19_Witness ==
    /\ inp.m = "_irq"
    /\ inp.e.kind = "Notify"
    /\ inp.e.conn = inp.conn
    /\ inp.e.vh = inp.vh
    /\ cbs = <<[slot |-> "notify", fn |-> "app_a"]>>
    /\ self._notify_callback = "app_a"
    /\ self._value = SensorExample

ReadKinds == {"read", "read_firmware", "read_sensor"}

\* A read-kind request replaces the registered read callback (and, for
\* read_firmware and read_sensor, the tracked attribute handle), and the
\* dispatcher invokes no read callback but the registered one.
ReadRequestReplaces ==
    /\ (inp'.m \in ReadKinds /\ is_connected(self) /\ exc' = "None") =>
          /\ self'._read_callback = inp'.cb
          /\ inp'.m = "read_firmware" => self'._value_handle = 56
          /\ inp'.m = "read_sensor" => self'._value_handle = 53
    /\ inp'.m = "_irq" =>
          \A i \in 1..Len(cbs') :
              cbs'[i].slot = "read" => cbs'[i].fn = self._read_callback

\* The last step was a read-kind request issued while an earlier one was
\* pending, and this step is a ReadResult for the earlier attribute handle.
EarlierReadAnswered ==
    /\ inp.m \in ReadKinds
    /\ inp.conn # None
    /\ inp.rcb # NoneS
    /\ inp.vh # None
    /\ exc = "None"
    /\ inp'.m = "_irq"
    /\ inp'.e.kind = "ReadResult"
    /\ inp'.e.vh = inp.vh

Discarded == cbs' = <<>> /\ Readings(self') = Readings(self) /\ self'.state = self.state

\* C20 as stated: a second read-kind request replaces the callback and the
\* handle of the pending one, whose callback is not invoked any more, and
\* a ReadResult for the earlier attribute handle is discarded.
C20_EarlierReadResultDiscarded ==
    [][ReadRequestReplaces /\ (EarlierReadAnswered => Discarded)]_vars

\* C20 amended: ... and a ReadResult for the earlier attribute handle is
\* discarded when the second request tracks another attribute handle; in
\* general a ReadResult for a handle other than the tracked one is discarded.
C20_EarlierReadResultDiscardedOnNewHandle ==
    [][/\ ReadRequestReplaces
       /\ (EarlierReadAnswered /\ self._value_handle # inp.vh) => Discarded
       /\ (/\ inp'.m = "_irq"
           /\ inp'.e.kind = "ReadResult"
           /\ inp'.e.vh # self._value_handle) => Discarded]_vars

\* read_sensor(app_b) replaced a pending firmware read, and the ReadResult
\* for handle 0x38 that followed was discarded.
C20_Witness ==
    /\ inp.m = "_irq"
    /\ inp.e.kind = "ReadResult"
    /\ inp.e.vh = 56
    /\ inp.e.conn = inp.conn
    /\ inp.vh = 53
    /\ inp.rcb = "app_b"
    /\ self._read_callback = "app_b"
    /\ cbs = <<>>
    /\ self.battery = None

\* C21: a ScanResult captures the peer identity (address type, address,
\* signal strength, addr_found) and requests the scan stop, gap_scan(None),
\* exactly when its address equals search_addr and its advertising type is
\* ADV_IND, ADV_DIRECT_IND or SCAN_RSP; otherwise (other address,
\* ADV_SCAN_IND, ADV_NONCONN_IND, search_addr unset) no field changes and no
\* host call is made; the session state is unchanged either way.
C21_ScanResultCapturesOnMatch ==
    [][(inp'.m = "_irq" /\ inp'.e.kind = "ScanResult") =>
          /\ self'.state = self.state
          /\ IF /\ inp'.e.addr = self.search_addr
                /\ inp'.e.adv \in {_ADV_IND, _ADV_DIRECT_IND, _ADV_SCAN_RSP}
                THEN /\ self'._addr_type = inp'.e.at
                     /\ self'._addr = inp'.e.addr
                     /\ self'.rssi = inp'.e.rssi
                     /\ self'.addr_found
                     /\ Len(calls') = 1
                     /\ calls'[1].fn = "gap_scan"
                     /\ calls'[1].a = None
             ELSE self' = self /\ calls' = <<>>]_vars

\* A scan response of the searched sensor has been captured in state
\* ScanDone, and the scan stop requested.
C21_Witness ==
    /\ inp.m = "_irq"
    /\ inp.e.kind = "ScanResult"
    /\ inp.e.adv = _ADV_SCAN_RSP
    /\ Len(calls) = 1
    /\ calls[1].fn = "gap_scan"
    /\ calls[1].a = None
    /\ self.addr_found
    /\ self._addr = Sensor
    /\ self._addr_type = _ADDR_TYPE_PUBLIC
    /\ self.rssi = Rssi
    /\ self.name = "Flower care"
    /\ self.state = _S_SCAN_DONE

\* C22: a ScanDone that finds a peer identity captured since the last
\* scan() submits exactly one gap_connect to the cached address type and
\* address and ends in state ScanDone, with or without a scan callback; a
\* registered callback is invoked exactly once; with no identity captured
\* the registered callback is invoked and no connect is submitted.
C22_ScanDoneConnects ==
    [][(inp'.m = "_irq" /\ inp'.e.kind = "ScanDone") =>
          /\ self._scan_callback # NoneS =>
                cbs' = <<[slot |-> "scan", fn |-> self._scan_callback]>>
          /\ IF self._addr # None
                THEN /\ Len(calls') = 1
                     /\ calls'[1].fn = "gap_connect"
                     /\ calls'[1].a = self._addr_type
                     /\ calls'[1].b = self._addr
                     /\ self'.state = _S_SCAN_DONE
             ELSE calls' = <<>>]_vars

\* C29: addr_found is true exactly when a peer address captured by the
\* current scan is cached: scan() leaves no addr_found behind from an
\* earlier scan.
C29_AddrFoundIsOfCurrentScan ==
    self.addr_found <=> self._addr # None

\* C23: a PeripheralConnect whose address type and address equal the
\* cached ones records the connection handle, invokes the connect callback
\* (if one is registered) once and submits one request: service discovery
\* when _DISCOVER_SERVICES is on, else the read of handle 0x38; when they
\* differ, nothing changes, no callback is invoked and no request submitted.
C23_ConnectEventOfCachedPeer ==
    [][(inp'.m = "_irq" /\ inp'.e.kind = "PeripheralConnect") =>
          IF inp'.e.at = self._addr_type /\ inp'.e.addr = self._addr
              THEN /\ self'._conn_handle = inp'.e.conn
                   /\ cbs' = IF self._conn_callback # NoneS
                                 THEN <<[slot |-> "conn", fn |-> self._conn_callback]>>
                             ELSE <<>>
                   /\ Len(calls') = 1
                   /\ calls'[1].a = inp'.e.conn
                   /\ IF cfg._DISCOVER_SERVICES
                          THEN calls'[1].fn = "gattc_discover_services"
                      ELSE calls'[1].fn = "gattc_read" /\ calls'[1].b = 56
          ELSE self' = self /\ cbs' = <<>> /\ calls' = <<>>]_vars

\* With service discovery on, the connection to the cached peer has been
\* recorded, the connect callback invoked and the discovery submitted.
C23_Witness ==
    /\ inp.m = "_irq"
    /\ inp.e.kind = "PeripheralConnect"
    /\ inp.conn = None
    /\ cfg._DISCOVER_SERVICES
    /\ self._conn_handle = inp.e.conn
    /\ cbs = <<[slot |-> "conn", fn |-> "app_a"]>>
    /\ Len(calls) = 1
    /\ calls[1].fn = "gattc_discover_services"

\* C24: a ReadDone submits the mode-change write (one write of [0xA0, 0x1F]
\* with response to handle 0x33) when the state is FirmwareRead and does
\* nothing in any other state; a WriteDone with the tracked handles invokes
\* the write callback (if registered) once and submits the sensor read (one
\* read of handle 0x35) exactly when the state after the callback is
\* ModeChanged; so each ReadDone leads to at most one write and each
\* WriteDone to at most one read.
C24_AutoStepsGatedByState ==
    [][/\ (inp'.m = "_irq" /\ inp'.e.kind = "ReadDone") =>
              /\ cbs' = <<>>
              /\ IF self.state = _S_READ_FIRMWARE_DONE
                     THEN /\ Len(calls') = 1
                          /\ calls'[1].fn = "gattc_write"
                          /\ calls'[1].a = self._conn_handle
                          /\ calls'[1].b = 51
                          /\ calls'[1].d = <<160, 31, 1>>
                 ELSE calls' = <<>> /\ self' = self
       /\ (/\ inp'.m = "_irq"
           /\ inp'.e.kind = "WriteDone"
           /\ inp'.e.conn = self._conn_handle
           /\ inp'.e.vh = self._value_handle) =>
              /\ cbs' = IF self._write_callback # NoneS
                            THEN <<[slot |-> "write", fn |-> self._write_callback]>>
                        ELSE <<>>
              /\ IF self'.state = _S_MODE_CHANGE_DONE
                     THEN /\ Len(calls') = 1
                          /\ calls'[1].fn = "gattc_read"
                          /\ calls'[1].a = self._conn_handle
                          /\ calls'[1].b = 53
                 ELSE calls' = <<>>]_vars

\* The WriteDone of a mode change requested with an application callback
\* in state FirmwareRead has invoked that callback and submitted no read.
C24_Witness ==
    /\ inp.m = "_irq"
    /\ inp.e.kind = "WriteDone"
    /\ inp.e.conn = inp.conn
    /\ inp.e.vh = inp.vh
    /\ cbs = <<[slot |-> "write", fn |-> "app_a"]>>
    /\ self.state = _S_READ_FIRMWARE_DONE
    /\ calls = <<>>

\* The firmware read is among the GATT requests made on the connection.
FirmwareReadSubmitted ==
    \E i \in 1..Len(hostLog) :
        hostLog[i].fn = "gattc_read" /\ hostLog[i].handle = _HANDLE_READ_VERSION_BATTERY

\* C25: with both discovery switches on, a ServiceDone raises no error; if
\* the searched service was reported it submits the characteristic
\* discovery over the cached start and end handles; if it was not, the auto
\* sequence continues all the same: once the host has answered everything
\* (nothing is in flight, no request was rejected), the firmware read has
\* been submitted.
C25_AutoContinuesAfterDiscovery ==
    [][(cfg._DISCOVER_SERVICES /\ cfg._DISCOVER_CHARACTERISTICS) =>
          /\ (hostq # <<>> /\ Head(hostq).kind = "ServiceDone") =>
                /\ exc' = "None"
                /\ (self._start_handle # None /\ self._end_handle # None) =>
                      /\ Len(calls') = 1
                      /\ calls'[1].fn = "gattc_discover_characteristics"
                      /\ calls'[1].b = self._start_handle
                      /\ calls'[1].d = <<self._end_handle>>
          /\ (is_connected(self') /\ hostq' = <<>> /\ ~hostFault') =>
                FirmwareReadSubmitted']_vars

GattCalls(cs) == { i \in 1..Len(cs) : IsGatt(cs[i]) }

ReadingLost(s, t) ==
    \E i \in 1..Len(Readings(s)) :
        /\ Readings(s)[i] # Readings(Blank)[i]
        /\ Readings(t)[i] = Readings(Blank)[i]

\* C28: in state SensorRead temp, light, moist and cond hold decoded values,
\* in state FirmwareRead battery and version do (a reading holds a value
\* only if a decoder stored it since the last reset); and a step that
\* clears any reading is a reset: it clears the state and all six readings
\* together.
C28_ReadingsMatchState ==
    [][/\ self'.state = _S_READ_SENSOR_DONE =>
              /\ self'.temp # None
              /\ self'.light # NoneL
              /\ self'.moist # None
              /\ self'.cond # None
       /\ self'.state = _S_READ_FIRMWARE_DONE =>
              /\ self'.battery # None
              /\ self'.version # NoneB
       /\ ReadingLost(self, self') =>
              /\ self'.state = _S_INIT
              /\ Readings(self') = Readings(Blank)]_vars

\* A sensor read was decoded after the firmware read of the same session.
C28_Witness ==
    /\ SensorDecodeRan
    /\ self.state = _S_READ_SENSOR_DONE
    /\ self.temp # None
    /\ self.battery # None
    /\ is_connected(self)

\* C30: the PeripheralDisconnect of a connection the driver closed with
\* disconnect() never resets a later session: delivered while the driver is
\* connected again (with whatever handle value), it leaves the connection
\* handle, the session state and the readings as they were.
C30_StaleDisconnectIgnored ==
    [][(/\ hostq # <<>>
        /\ hostq' = Tail(hostq)
        /\ inp'.m = "_irq"
        /\ inp'.e.kind = "PeripheralDisconnect"
        /\ is_connected(self)) =>
            /\ self'._conn_handle = self._conn_handle
            /\ self'.state = self.state
            /\ Readings(self') = Readings(self)]_vars

\* C27: with events dispatched between any two statements of a call, the
\* callback passed to read_firmware() is invoked only with the payload of a
\* ReadResult for handle 0x38 and the callback passed to read_sensor() only
\* with one for handle 0x35.
C27_ReadCallbackGetsOwnPayload ==
    [][\A i \in 1..Len(cbs') :
          (inp'.m = "_irq" /\ cbs'[i].slot = "read") =>
              /\ cbs'[i].fn = PreCallbackOf("read_firmware") =>
                    /\ inp'.e.kind = "ReadResult"
                    /\ inp'.e.vh = _HANDLE_READ_VERSION_BATTERY
              /\ cbs'[i].fn = PreCallbackOf("read_sensor") =>
                    /\ inp'.e.kind = "ReadResult"
                    /\ inp'.e.vh = _HANDLE_READ_SENSOR_DATA]_vars

=============================================================================
